---- MODULE Spec2Model ----
(***************************************************************************)
(* easyClean: unused-asset detector.  Model of the scan pipeline           *)
(* (configuration, asset walk, reference walk, matching, classification,   *)
(* aggregation) and of the two deleters (delete command, review UI).       *)
(*                                                                         *)
(* Strings are sequences of tokens.  A token stands for a run of           *)
(* characters that contains no path separator ("logo", ".png") or for the  *)
(* separator itself ("/"), so that prefix, suffix and glob operations act  *)
(* below the level of path segments, as the byte-wise Go code does.        *)
(***************************************************************************)
EXTENDS Integers, Sequences, FiniteSets, TLC

\* ------------------------------------------------------------------------
\* Bounds
\* ------------------------------------------------------------------------
MaxLines == 2   \* lines of the varying source file src/app.js
MaxScans == 2   \* scans of the same project in one behaviour
MaxDeps  == 2   \* entries of the two dependency tables of package.json together

\* ------------------------------------------------------------------------
\* Go string / path/filepath helpers, as used by the sources
\* ------------------------------------------------------------------------
SEP == "/"

HasPrefix(s, p) == Len(s) >= Len(p) /\ SubSeq(s, 1, Len(p)) = p

HasSuffix(s, p) == Len(s) >= Len(p) /\ SubSeq(s, Len(s) - Len(p) + 1, Len(s)) = p

TrimPrefix(s, p) == IF HasPrefix(s, p) THEN SubSeq(s, Len(p) + 1, Len(s)) ELSE s

RECURSIVE StripTrailingSep(_)
StripTrailingSep(s) ==
    IF s # <<>> /\ s[Len(s)] = SEP
    THEN StripTrailingSep(SubSeq(s, 1, Len(s) - 1))
    ELSE s

\* index of the last separator of s, 0 when there is none
LastSep(s) ==
    LET idx == {i \in 1..Len(s) : s[i] = SEP}
    IN  IF idx = {} THEN 0 ELSE CHOOSE i \in idx : \A j \in idx : j <= i

\* filepath.Base
Base(path) ==
    IF path = <<>> THEN <<".">>
    ELSE LET p == StripTrailingSep(path)
         IN  IF p = <<>> THEN <<SEP>>
             ELSE SubSeq(p, LastSep(p) + 1, Len(p))

\* tokens whose first character is a dot
DotTokens == {".", ".png", ".js", ".git", ".next", ".xcassets"}

\* filepath.Ext: the suffix that starts at the last dot of the last element
Ext(path) ==
    LET from == LastSep(path) + 1
        idx  == {i \in from..Len(path) : path[i] \in DotTokens}
    IN  IF idx = {} THEN <<>>
        ELSE SubSeq(path, CHOOSE i \in idx : \A j \in idx : j <= i, Len(path))

\* the segments of a path: the maximal separator-free runs, empty ones included
RECURSIVE Split(_)
Split(s) ==
    IF LastSep(s) = 0 THEN <<s>>
    ELSE Append(Split(SubSeq(s, 1, LastSep(s) - 1)), SubSeq(s, LastSep(s) + 1, Len(s)))

RECURSIVE JoinSegs(_)
JoinSegs(segs) ==
    IF segs = <<>> THEN <<>>
    ELSE IF Len(segs) = 1 THEN segs[1]
    ELSE segs[1] \o <<SEP>> \o JoinSegs(Tail(segs))

\* filepath.Clean on paths without "..": drops empty and "." segments
Clean(s) ==
    LET rooted == s # <<>> /\ s[1] = SEP
        keep(seg) == seg # <<>> /\ seg # <<".">>
        body == JoinSegs(SelectSeq(Split(s), keep))
    IN  IF rooted THEN <<SEP>> \o body
        ELSE IF body = <<>> THEN <<".">> ELSE body

\* filepath.Join of two and of three elements (empty elements are ignored)
Join2(a, b) == Clean(IF b = <<>> THEN a ELSE a \o <<SEP>> \o b)

Join3(a, b, c) == Join2(Join2(a, b), c)

\* filepath.Rel for a target at or below the base
Rel(base, target) ==
    IF target = base THEN <<".">>
    ELSE IF HasPrefix(target, base \o <<SEP>>)
         THEN SubSeq(target, Len(base) + 2, Len(target))
         ELSE target

\* filepath.Match for patterns made of literals and "*"
RECURSIVE Match(_, _)
Match(pattern, name) ==
    IF pattern = <<>> THEN name = <<>>
    ELSE IF Head(pattern) = "*"
         THEN \/ Match(Tail(pattern), name)
              \/ (name # <<>> /\ Head(name) # SEP /\ Match(pattern, Tail(name)))
         ELSE name # <<>> /\ Head(name) = Head(pattern) /\ Match(Tail(pattern), Tail(name))

\* filepath.Match reports ErrBadPattern for a pattern with an unclosed "["
ErrBadPattern(pattern) == \E i \in 1..Len(pattern) : pattern[i] = "["

\* matched, err := filepath.Match(pattern, name)
filepathMatch(pattern, name) ==
    [matched |-> ~ErrBadPattern(pattern) /\ Match(pattern, name),
     err |-> ErrBadPattern(pattern)]

\* ------------------------------------------------------------------------
\* The project on disk
\* ------------------------------------------------------------------------
Root == <<SEP, "p">>

P_AssetsLogo == <<"assets", SEP, "logo", ".png">>
P_LegacyJs   == <<"legacy", SEP, "old", ".js">>
P_LegacyPng  == <<"legacy", SEP, "old", ".png">>
P_NmIcon     == <<"node_modules", SEP, "pkg", SEP, "icon", ".png">>
P_NmIndex    == <<"node_modules", SEP, "pkg", SEP, "index", ".js">>
P_AppJs      == <<"src", SEP, "app", ".js">>
P_ImgLogo    == <<"src", SEP, "img", SEP, "logo", ".png">>

\* every regular file of the project, in the lexical order of filepath.WalkDir
TreeOrder ==
    << Join2(Root, P_AssetsLogo), Join2(Root, P_LegacyJs), Join2(Root, P_LegacyPng),
       Join2(Root, P_NmIcon), Join2(Root, P_NmIndex), Join2(Root, P_AppJs),
       Join2(Root, P_ImgLogo) >>

AllFiles == {TreeOrder[i] : i \in 1..Len(TreeOrder)}

\* os.Stat(path).Size()
FileSize(path) ==
    CASE path = Join2(Root, P_AssetsLogo) -> 1
      [] path = Join2(Root, P_LegacyPng)  -> 2
      [] path = Join2(Root, P_NmIcon)     -> 4
      [] path = Join2(Root, P_ImgLogo)    -> 8
      [] OTHER -> 3

\* the directories at or below the root on the way to a path
AncestorDirs(path) ==
    {SubSeq(path, 1, i - 1) : i \in {j \in (Len(Root) + 1)..Len(path) : path[j] = SEP}}

\* directories are never removed by the program
AllDirs == UNION {AncestorDirs(f) : f \in AllFiles}

\* ------------------------------------------------------------------------
\* State
\* ------------------------------------------------------------------------
VARIABLES
    pc,           \* position of the scan command
    scanNo,       \* number of the scan under way
    content,      \* the lines of src/app.js
    userCfg,      \* the user's .unusedassets.yaml
    excludeFlag,  \* the --exclude flag of the scan command
    files,        \* the regular files that exist on disk
    cfg,          \* the effective ProjectConfig
    assets,       \* []models.AssetFile of the scan under way
    references,   \* map[string][]*models.Reference of the scan under way
    result,       \* the ScanResult saved to the cache
    prevStatus,   \* path -> status of the previous scan
    lastOp,       \* the last deleter run, with its inputs and the disk before it
    markers,      \* the marker artifacts in the project root
    projectType,  \* the project type runScan detected
    provider,     \* the pattern provider of the ReferenceFinder of the scan
    bound,        \* the TCP ports of localhost that have a listener
    external,     \* the ports held by programs other than easyClean
    registry,     \* the entries of ~/.cache/easyClean/servers.json
    procs,        \* the review processes, by PID
    admin,        \* a run of review --kill or review --list
    call,         \* a function of the scanner under examination, with its arguments
    ret           \* what the function returned

scanVars == <<pc, scanNo, content, userCfg, excludeFlag, files, cfg, assets,
              references, result, prevStatus, lastOp, markers, projectType, provider>>

reviewVars == <<bound, external, registry, procs, admin>>

callVars == <<call, ret>>

vars == <<scanVars, reviewVars, callVars>>

\* ------------------------------------------------------------------------
\* Configuration
\* ------------------------------------------------------------------------
DefaultAssetPaths ==
    << <<"assets", SEP>>, <<"public", SEP>>, <<"static", SEP>>,
       <<"src", SEP, "assets", SEP>> >>

DefaultExcludePaths ==
    << <<"node_modules", SEP>>, <<"dist", SEP>>, <<"build", SEP>>, <<".next", SEP>>,
       <<"target", SEP>>, <<"vendor", SEP>>, <<".git", SEP>>, <<"__pycache__", SEP>>,
       <<"android", SEP, "app", SEP, "src", SEP, "main", SEP, "res", SEP>>,
       <<"android", SEP, "app", SEP, "src", SEP, "main", SEP>>,
       <<"ios", SEP, "Runner", SEP, "Assets", ".xcassets", SEP>>,
       <<"ios", SEP, "Runner", SEP, "Assets", SEP>>,
       <<"ios", SEP>>, <<"android", SEP>> >>

\* the extensions of the default list that occur in the project
DefaultExtensions == << <<".png">> >>

DefaultConfig ==
    [AssetPaths |-> DefaultAssetPaths, Extensions |-> DefaultExtensions,
     ExcludePaths |-> DefaultExcludePaths, AutoDetectProjectType |-> TRUE,
     ProjectType |-> "Unknown"]

\* a .unusedassets.yaml: the keys it leaves out have the zero value
ConfigFile(assetPaths, excludePaths, autoDetect, projectTypeKey) ==
    [Exists |-> TRUE, Readable |-> TRUE, AssetPaths |-> assetPaths,
     ExcludePaths |-> excludePaths, AutoDetectProjectType |-> autoDetect,
     ProjectType |-> projectTypeKey]

NoConfigFile ==
    [Exists |-> FALSE, Readable |-> FALSE, AssetPaths |-> <<>>, ExcludePaths |-> <<>>,
     AutoDetectProjectType |-> FALSE, ProjectType |-> "Unknown"]

\* a configuration file that is not valid YAML
BrokenConfigFile == [NoConfigFile EXCEPT !.Exists = TRUE]

\* the configuration files a user may have written
UserConfigs ==
    { NoConfigFile,
      ConfigFile(<<>>, <<>>, FALSE, "Unknown"),
      ConfigFile(<<>>, << <<"legacy", SEP>> >>, FALSE, "Unknown"),
      ConfigFile(<<>>, << <<"src", SEP, "img">> >>, FALSE, "Unknown") }

\* configuration files that set asset_paths, auto_detect_project_type or
\* project_type
LayeredConfigs ==
    { NoConfigFile,
      ConfigFile(<<>>, <<>>, TRUE, "Unknown"),
      ConfigFile(<< <<"legacy", SEP>> >>, <<>>, FALSE, "Unknown"),
      ConfigFile(<< <<"legacy", SEP>> >>, <<>>, TRUE, "Unknown"),
      ConfigFile(<<>>, << <<"legacy", SEP>> >>, TRUE, "WebReact"),
      BrokenConfigFile }

\* the values of --exclude of the scans that exercise the configuration
LayeredFlags ==
    { <<>>,
      << <<"legacy", SEP>>, <<"node_modules", SEP>> >>,
      << <<"[", "legacy">> >> }

\* the values of --exclude a user may pass
ExcludeFlags ==
    { <<>>,
      << <<"assets", SEP, "*", ".png">> >>,
      << <<"legacy", SEP>>, <<"node_modules", SEP>> >> }

\* LoadConfig returns an error when the file exists and cannot be read or parsed
LoadConfigFails(user) == user.Exists /\ ~user.Readable

LoadConfig(user) ==
    IF ~user.Exists THEN DefaultConfig
    ELSE [AssetPaths   |-> IF Len(user.AssetPaths) = 0
                           THEN DefaultConfig.AssetPaths
                           ELSE user.AssetPaths,
          Extensions   |-> DefaultConfig.Extensions,
          ExcludePaths |-> IF Len(user.ExcludePaths) = 0
                           THEN DefaultConfig.ExcludePaths
                           ELSE user.ExcludePaths,
          AutoDetectProjectType |-> user.AutoDetectProjectType,
          ProjectType  |-> user.ProjectType]

\* runScan: the command-line flags override the loaded configuration
EffectiveConfig(user, flag) ==
    LET loaded == LoadConfig(user)
    IN  [loaded EXCEPT !.ExcludePaths = IF Len(flag) > 0 THEN flag ELSE @]

\* ------------------------------------------------------------------------
\* Project type detection
\* ------------------------------------------------------------------------
DepNames == {"react-native", "react", "vue", "@angular/core", "svelte", "lodash"}

\* package.json in the project root: absent, unreadable (a directory of that
\* name), malformed, or a JSON object with its two dependency tables
PackageFile(state, deps, devDeps) ==
    [state |-> state, Dependencies |-> deps, DevDependencies |-> devDeps]

NoPackageFile == PackageFile("absent", {}, {})

PackageFiles ==
    {PackageFile(st, {}, {}) : st \in {"absent", "unreadable", "malformed"}}
    \cup {PackageFile("ok", d, v) : d, v \in SUBSET DepNames}

\* the other markers DetectProjectType looks for; App.xcodeproj is a directory
MarkerNames ==
    {"pubspec.yaml", "App.xcodeproj", "build.gradle", "build.gradle.kts",
     "app/build.gradle", "go.mod", "Cargo.toml"}

NoMarkers == [packageJSON |-> NoPackageFile, present |-> {}]

\* every root the detector may be run on
AllMarkers ==
    {[packageJSON |-> pj, present |-> m] :
        pj \in {f \in PackageFiles :
                    Cardinality(f.Dependencies) + Cardinality(f.DevDependencies) <= MaxDeps},
        m \in SUBSET MarkerNames}

\* the roots of the scanned project: no marker, or a React web application
ScanMarkers ==
    { NoMarkers,
      [packageJSON |-> PackageFile("ok", {"react"}, {"lodash"}), present |-> {}] }

\* the roots the configuration layering is exercised on
ConfigMarkers ==
    ScanMarkers \cup
    { [packageJSON |-> NoPackageFile, present |-> {"go.mod"}],
      [packageJSON |-> PackageFile("ok", {"lodash"}, {}), present |-> {"pubspec.yaml"}],
      [packageJSON |-> PackageFile("malformed", {}, {}), present |-> {"pubspec.yaml"}] }

\* readPackageJSON: TRUE iff os.ReadFile and json.Unmarshal both succeed
readPackageJSON(m) == m.packageJSON.state = "ok"

\* variant: react is tested before react-native
detectFromPackageJSON_ReactFirst(pkg) ==
    LET allDeps == pkg.Dependencies \cup pkg.DevDependencies
    IN  IF "react" \in allDeps THEN "WebReact"
        ELSE IF "react-native" \in allDeps THEN "ReactNative"
        ELSE IF "vue" \in allDeps THEN "WebVue"
        ELSE IF "@angular/core" \in allDeps THEN "WebAngular"
        ELSE IF "svelte" \in allDeps THEN "WebSvelte"
        ELSE "Unknown"

detectFromPackageJSON(pkg) ==
    LET allDeps == pkg.Dependencies \cup pkg.DevDependencies
    IN  IF "react-native" \in allDeps THEN "ReactNative"
        ELSE IF "react" \in allDeps THEN "WebReact"
        ELSE IF "vue" \in allDeps THEN "WebVue"
        ELSE IF "@angular/core" \in allDeps THEN "WebAngular"
        ELSE IF "svelte" \in allDeps THEN "WebSvelte"
        ELSE "Unknown"

\* fileExists: a regular file of that name is in the root
fileExists(m, name) == name \in m.present \ {"App.xcodeproj"}

\* hasXcodeProject: a directory with extension .xcodeproj is in the root
hasXcodeProject(m) == "App.xcodeproj" \in m.present

DetectProjectType(m) ==
    IF readPackageJSON(m) THEN detectFromPackageJSON(m.packageJSON)
    ELSE IF fileExists(m, "pubspec.yaml") THEN "Flutter"
    ELSE IF hasXcodeProject(m) THEN "IOS"
    ELSE IF \/ fileExists(m, "build.gradle") \/ fileExists(m, "build.gradle.kts")
            \/ fileExists(m, "app/build.gradle") THEN "Android"
    ELSE IF fileExists(m, "go.mod") THEN "Go"
    ELSE IF fileExists(m, "Cargo.toml") THEN "Rust"
    ELSE "Unknown"

ProjectTypes ==
    {"Unknown", "WebReact", "WebVue", "WebAngular", "WebSvelte", "ReactNative",
     "Flutter", "IOS", "Android", "Go", "Rust"}

DefaultAssetPathsForProjectType(pt) ==
    CASE pt = "WebReact"    -> << <<"public", SEP>>, <<"src", SEP, "assets", SEP>>,
                                  <<"static", SEP>> >>
      [] pt = "WebVue"      -> << <<"public", SEP>>, <<"src", SEP, "assets", SEP>> >>
      [] pt = "WebAngular"  -> << <<"src", SEP, "assets", SEP>> >>
      [] pt = "WebSvelte"   -> << <<"static", SEP>>, <<"src", SEP, "assets", SEP>> >>
      [] pt = "ReactNative" -> << <<"assets", SEP>>, <<"src", SEP, "assets", SEP>> >>
      [] pt = "Flutter"     -> << <<"assets", SEP>>, <<"lib", SEP, "assets", SEP>> >>
      [] pt = "IOS"         -> << <<"Assets", ".xcassets", SEP>>, <<"Resources", SEP>> >>
      [] pt = "Android"     -> << <<"res", SEP, "drawable", SEP>>, <<"res", SEP, "raw", SEP>>,
                                  <<"assets", SEP>> >>
      [] pt = "Go"          -> << <<"assets", SEP>>, <<"static", SEP>>, <<"web", SEP>> >>
      [] pt = "Rust"        -> << <<"assets", SEP>>, <<"static", SEP>>, <<"resources", SEP>> >>
      [] OTHER              -> << <<"assets", SEP>>, <<"public", SEP>>, <<"static", SEP>> >>

\* runScan: the asset paths follow the detected project type
AdjustForProjectType(config, pt) ==
    IF config.AutoDetectProjectType /\ pt # "Unknown"
    THEN [config EXCEPT !.AssetPaths = DefaultAssetPathsForProjectType(pt)]
    ELSE config

\* ------------------------------------------------------------------------
\* Directory walk
\* ------------------------------------------------------------------------
\* variant: only the glob test of the relative path, no directory-name test
shouldExcludeDir_GlobOnly(path, root, excludePatterns) ==
    LET relPath == Rel(root, path)
    IN  \E i \in 1..Len(excludePatterns) :
            filepathMatch(excludePatterns[i], relPath).matched

shouldExcludeDir(path, root, excludePatterns) ==
    LET relPath == Rel(root, path)
    IN  \E i \in 1..Len(excludePatterns) :
            \/ Base(path) = Base(excludePatterns[i])
            \/ filepathMatch(excludePatterns[i], relPath).matched

\* filepath.WalkDir reaches a file unless one of its directories returned SkipDir
Walked(path, excludePatterns) ==
    \A d \in AncestorDirs(path) : ~shouldExcludeDir(d, Root, excludePatterns)

isAssetFile(path, config) ==
    \E i \in 1..Len(config.Extensions) : Ext(path) = config.Extensions[i]

createAssetFile(path) ==
    [Path |-> path, RelativePath |-> Rel(Root, path), Name |-> Base(path),
     Extension |-> Ext(path), Size |-> FileSize(path), Status |-> "Unused",
     References |-> <<>>, RefCount |-> 0]

FindAssets(config, disk) ==
    LET emit(path) == path \in disk /\ Walked(path, config.ExcludePaths)
                      /\ isAssetFile(path, config)
        found == SelectSeq(TreeOrder, emit)
    IN  [i \in 1..Len(found) |-> createAssetFile(found[i])]

\* ------------------------------------------------------------------------
\* Reference harvesting
\* ------------------------------------------------------------------------
\* A source line, as the harvester sees it: the path captured by a pattern,
\* whether the line starts with a comment prefix (isCommentLine) and whether
\* it contains "+", "${", "concat" or "join" (isDynamicReference).
Line(text, comment, dynamic) == [text |-> text, comment |-> comment, dynamic |-> dynamic]

T_DotImgLogo == <<".", SEP, "src", SEP, "img", SEP, "logo", ".png">>
T_ImgLogo    == <<"img", SEP, "logo", ".png">>
T_Logo       == <<"logo", ".png">>
T_Old        == <<"old", ".png">>
T_DotIcon    == <<".", SEP, "icon", ".png">>

\* the lines src/app.js may be made of
LineChoices ==
    { Line(T_DotImgLogo, FALSE, FALSE),
      Line(T_ImgLogo, FALSE, TRUE),
      Line(T_ImgLogo, TRUE, FALSE),
      Line(T_Logo, FALSE, FALSE),
      Line(T_Old, TRUE, TRUE) }

Contents == UNION {[1..n -> LineChoices] : n \in 0..MaxLines}

FileLines(path, appLines) ==
    CASE path = Join2(Root, P_AppJs)    -> appLines
      [] path = Join2(Root, P_LegacyJs) -> << Line(P_LegacyPng, FALSE, FALSE) >>
      [] path = Join2(Root, P_NmIndex)  -> << Line(T_DotIcon, FALSE, TRUE) >>
      [] OTHER -> <<>>

\* the pattern providers: the rules in the order GetPatterns lists them, the
\* AST-parsing flag and the file extensions of the framework
StandardPatterns ==
    <<"ImportPattern", "RequirePattern", "CSSUrlPattern", "HTMLSrcPattern",
      "StringLiteralPattern", "TemplateLiteralPattern">>

Provider(name, patterns, useAST, extensions) ==
    [Name |-> name, Patterns |-> patterns, UseASTParsing |-> useAST,
     SupportedFileExtensions |-> extensions]

ReactPatternProvider ==
    Provider("React",
             <<"ReactLazyPattern", "NextPublicPattern", "WebpackDynamicImport">>
                \o StandardPatterns,
             TRUE,
             << <<".js">>, <<".jsx">>, <<".ts">>, <<".tsx">>, <<".css">>, <<".scss">>,
                <<".less">> >>)

AngularPatternProvider ==
    Provider("Angular",
             <<"AngularTemplateUrlPattern", "AngularStyleUrlsPattern",
               "AngularLazyLoadPattern", "AngularTemplateAssetPattern">>
                \o StandardPatterns,
             TRUE,
             << <<".ts">>, <<".html">>, <<".css">>, <<".scss">>, <<".sass">>, <<".less">> >>)

VuePatternProvider ==
    Provider("Vue",
             <<"VueAsyncComponentPattern", "VueTemplateImgPattern",
               "VueTemplateRequirePattern", "NuxtStaticPattern">>
                \o StandardPatterns,
             TRUE,
             << <<".js">>, <<".ts">>, <<".vue">>, <<".css">>, <<".scss">>, <<".sass">>,
                <<".less">> >>)

FlutterPatternProvider ==
    Provider("Flutter",
             <<"FlutterImageAssetPattern", "FlutterAssetImagePattern",
               "FlutterAssetLoadPattern", "FlutterFontFamilyPattern",
               "FlutterPubspecAssetPattern", "StringLiteralPattern">>,
             FALSE,
             << <<".dart">>, <<".yaml">> >>)

SveltePatternProvider ==
    Provider("Svelte", StandardPatterns, TRUE,
             << <<".js">>, <<".ts">>, <<".svelte">>, <<".css">> >>)

GenericPatternProvider ==
    Provider("Generic", StandardPatterns, FALSE,
             << <<".js">>, <<".ts">>, <<".jsx">>, <<".tsx">>, <<".css">>, <<".html">> >>)

GetPatternProvider(pt) ==
    CASE pt \in {"WebReact", "ReactNative"} -> ReactPatternProvider
      [] pt = "WebAngular" -> AngularPatternProvider
      [] pt = "WebVue"     -> VuePatternProvider
      [] pt = "Flutter"    -> FlutterPatternProvider
      [] pt = "WebSvelte"  -> SveltePatternProvider
      [] OTHER             -> GenericPatternProvider

\* NewReferenceFinder: the provider is chosen by the project type of the
\* configuration
NewReferenceFinder(config) ==
    LET pt == config.ProjectType
    IN  [config |-> config, projectType |-> pt, patternProvider |-> GetPatternProvider(pt),
         patterns |-> GetPatternProvider(pt).Patterns]

\* the fallback extensions of isSourceFile that occur in the project
sourceExtensions == { <<".js">> }

isSourceFile(path, rf) ==
    \/ \E i \in 1..Len(rf.patternProvider.SupportedFileExtensions) :
            Ext(path) = rf.patternProvider.SupportedFileExtensions[i]
    \/ Ext(path) \in sourceExtensions

\* string(rune(n)): the character of code point n, as a token; code point 46
\* is the dot and 47 the separator, a surrogate or a value above the last
\* code point gives the replacement character
RuneString(n) ==
    IF n = 46 THEN "."
    ELSE IF n = 47 THEN SEP
    ELSE IF n \in 55296..57343 \/ n > 1114111 THEN "U+FFFD"
    ELSE ToString(n)

\* the key deduplicateReferences builds for a reference
DedupKey(ref) == Join3(ref.SourceFile, <<RuneString(ref.LineNumber)>>, ref.MatchedText)

RECURSIVE deduplicateFrom(_, _, _)
deduplicateFrom(refs, seen, unique) ==
    IF refs = <<>> THEN unique
    ELSE IF DedupKey(Head(refs)) \in seen THEN deduplicateFrom(Tail(refs), seen, unique)
    ELSE deduplicateFrom(Tail(refs), seen \cup {DedupKey(Head(refs))},
                         Append(unique, Head(refs)))

deduplicateReferences(refs) == deduplicateFrom(refs, {}, <<>>)

\* the loop of scanFile over the lines: one reference per captured path,
\* numbered by its line.  The lines of the project hold a quoted path, which
\* StringLiteralPattern captures.
scanLines(path, appLines, rf) ==
    LET lines == FileLines(path, appLines)
        captured(n) == \E i \in 1..Len(rf.patterns) : rf.patterns[i] = "StringLiteralPattern"
        hits == SelectSeq([n \in 1..Len(lines) |-> n], captured)
    IN  [k \in 1..Len(hits) |->
            [SourceFile |-> path, LineNumber |-> hits[k], MatchedText |-> lines[hits[k]].text,
             IsComment |-> lines[hits[k]].comment, IsDynamic |-> lines[hits[k]].dynamic]]

\* scanFile when the file is read to its end
scanFile(path, appLines, rf) == deduplicateReferences(scanLines(path, appLines, rf))

\* A line of a JavaScript file, as the AST parser sees it: the first capture
\* group of every match of its six patterns, in the order parseLine tries
\* them (the group is empty for <img src="..."> with a quoted path, which
\* fills the second group of jsxImgPattern), whether
\* templateLiteralAssetPattern matches, isCommentLine and isDynamicReference.
AstLine(matches, template, comment, dynamic) ==
    [matches |-> matches, template |-> template, comment |-> comment, dynamic |-> dynamic]

\* ASTParser.parseLine
parseLine(filePath, line, lineNumber, isComment) ==
    LET kept(t) == t # <<>>
        texts == SelectSeq(line.matches, kept)
    IN  [k \in 1..Len(texts) |->
            [SourceFile |-> filePath, LineNumber |-> lineNumber, MatchedText |-> texts[k],
             IsComment |-> isComment, IsDynamic |-> line.dynamic]]
        \o (IF line.template
            THEN << [SourceFile |-> filePath, LineNumber |-> lineNumber, MatchedText |-> <<>>,
                     IsComment |-> isComment, IsDynamic |-> TRUE] >>
            ELSE <<>>)

\* ASTParser.ParseFile: the loop over the lines, lineNumber starting at 1
RECURSIVE ParseFileFrom(_, _, _)
ParseFileFrom(filePath, lines, lineNumber) ==
    IF lineNumber > Len(lines) THEN <<>>
    ELSE parseLine(filePath, lines[lineNumber], lineNumber, lines[lineNumber].comment)
         \o ParseFileFrom(filePath, lines, lineNumber + 1)

ParseFile(filePath, lines) == ParseFileFrom(filePath, lines, 1)

\* the files whose read fails, each with the step that fails: "open" for
\* os.Open, "scan" for scanner.Err() after the lines were read
NoFailure == <<>>

\* scanFile with its error: an open error returns no reference, a scanner
\* error returns the references appended so far, both with a non-nil error
scanFileOutcome(path, appLines, rf, failing) ==
    IF path \notin DOMAIN failing
    THEN [refs |-> scanFile(path, appLines, rf), err |-> FALSE]
    ELSE IF failing[path] = "open" THEN [refs |-> <<>>, err |-> TRUE]
    ELSE [refs |-> scanLines(path, appLines, rf), err |-> TRUE]

\* utils.Exists
Exists(path, disk) == path \in disk \/ path \in AllDirs

cleanPath(path) == TrimPrefix(TrimPrefix(path, <<".", SEP>>), <<SEP>>)

tryExactMatch(cleaned, disk) ==
    LET fullPath == Join2(Root, cleaned)
    IN  IF Exists(fullPath, disk) THEN fullPath
        ELSE IF HasSuffix(cleaned, <<SEP>>) THEN Join2(Root, cleaned)
        ELSE <<>>

RECURSIVE tryAssetPathMatchFrom(_, _, _, _)
tryAssetPathMatchFrom(cleaned, assetPaths, i, disk) ==
    IF i > Len(assetPaths) THEN <<>>
    ELSE LET assetPath == assetPaths[i]
             fullPath  == Join3(Root, assetPath, cleaned)
             withoutPrefix == TrimPrefix(TrimPrefix(cleaned, assetPath), <<SEP>>)
             fullPath2 == Join3(Root, assetPath, withoutPrefix)
         IN  IF Exists(fullPath, disk) THEN fullPath
             ELSE IF HasPrefix(cleaned, assetPath) /\ Exists(fullPath2, disk) THEN fullPath2
             ELSE tryAssetPathMatchFrom(cleaned, assetPaths, i + 1, disk)

tryAssetPathMatch(cleaned, config, disk) ==
    tryAssetPathMatchFrom(cleaned, config.AssetPaths, 1, disk)

RECURSIVE tryBasenameMatchFrom(_, _, _, _)
tryBasenameMatchFrom(cleaned, assetPaths, i, disk) ==
    IF i > Len(assetPaths) THEN <<>>
    ELSE LET assetDir == Join2(Root, assetPaths[i])
             hit(path) == path \in disk /\ HasPrefix(path, assetDir \o <<SEP>>)
                          /\ Base(path) = Base(cleaned)
             found == SelectSeq(TreeOrder, hit)
         IN  IF Exists(assetDir, disk) /\ found # <<>> THEN found[1]
             ELSE tryBasenameMatchFrom(cleaned, assetPaths, i + 1, disk)

tryBasenameMatch(cleaned, config, disk) ==
    tryBasenameMatchFrom(cleaned, config.AssetPaths, 1, disk)

\* variant: the basename search runs before the asset-path search
resolveAssetPath_BasenameFirst(matched, config, disk) ==
    LET cleaned == cleanPath(matched)
    IN  IF tryExactMatch(cleaned, disk) # <<>> THEN tryExactMatch(cleaned, disk)
        ELSE IF tryBasenameMatch(cleaned, config, disk) # <<>>
             THEN tryBasenameMatch(cleaned, config, disk)
        ELSE IF tryAssetPathMatch(cleaned, config, disk) # <<>>
             THEN tryAssetPathMatch(cleaned, config, disk)
        ELSE cleaned

resolveAssetPath(matched, config, disk) ==
    LET cleaned == cleanPath(matched)
    IN  IF tryExactMatch(cleaned, disk) # <<>> THEN tryExactMatch(cleaned, disk)
        ELSE IF tryAssetPathMatch(cleaned, config, disk) # <<>>
             THEN tryAssetPathMatch(cleaned, config, disk)
        ELSE IF tryBasenameMatch(cleaned, config, disk) # <<>>
             THEN tryBasenameMatch(cleaned, config, disk)
        ELSE cleaned

\* references[assetPath] = append(references[assetPath], ref)
AddReference(map, key, ref) ==
    [k \in DOMAIN map \cup {key} |->
        IF k = key THEN (IF key \in DOMAIN map THEN map[key] ELSE <<>>) \o <<ref>>
        ELSE map[k]]

RECURSIVE GroupReferences(_, _, _, _)
GroupReferences(map, refs, config, disk) ==
    IF refs = <<>> THEN map
    ELSE LET assetPath == resolveAssetPath(Head(refs).MatchedText, config, disk)
         IN  GroupReferences(IF assetPath # <<>> THEN AddReference(map, assetPath, Head(refs))
                             ELSE map,
                             Tail(refs), config, disk)

\* variant: the references scanFile returns are grouped whatever its error
RECURSIVE HarvestFiles_KeepOnError(_, _, _, _)
HarvestFiles_KeepOnError(map, paths, appLines, env) ==
    IF paths = <<>> THEN map
    ELSE HarvestFiles_KeepOnError(
             GroupReferences(map,
                 scanFileOutcome(Head(paths), appLines, env.rf, env.failing).refs,
                 env.config, env.disk),
             Tail(paths), appLines, env)

RECURSIVE HarvestFiles(_, _, _, _)
HarvestFiles(map, paths, appLines, env) ==
    IF paths = <<>> THEN map
    ELSE LET out == scanFileOutcome(Head(paths), appLines, env.rf, env.failing)
         IN  HarvestFiles(IF ~out.err
                          THEN GroupReferences(map, out.refs, env.config, env.disk)
                          ELSE map,
                          Tail(paths), appLines, env)

\* what the callback of filepath.WalkDir returns for a source file: nil,
\* whatever scanFile returned
walkFn(out) == "nil"

\* the error filepath.WalkDir returns: the first non-nil return of the callback
WalkErr(paths, appLines, env) ==
    \E i \in 1..Len(paths) :
        walkFn(scanFileOutcome(paths[i], appLines, env.rf, env.failing)) # "nil"

\* variant: the walk of the harvester descends into every directory
FindReferences_NoPrune(config, disk, appLines) ==
    LET rf == NewReferenceFinder(config)
        scanned(path) == path \in disk /\ isSourceFile(path, rf)
    IN  HarvestFiles(<<>>, SelectSeq(TreeOrder, scanned), appLines,
                     [config |-> config, disk |-> disk, rf |-> rf, failing |-> NoFailure])

\* FindReferences when the read of the files in failing fails: the map and
\* the error it returns
FindReferencesOutcome(config, disk, appLines, failing) ==
    LET rf == NewReferenceFinder(config)
        scanned(path) == path \in disk /\ Walked(path, config.ExcludePaths)
                         /\ isSourceFile(path, rf)
        env == [config |-> config, disk |-> disk, rf |-> rf, failing |-> failing]
    IN  [references |-> HarvestFiles(<<>>, SelectSeq(TreeOrder, scanned), appLines, env),
         err |-> WalkErr(SelectSeq(TreeOrder, scanned), appLines, env)]

FindReferences(config, disk, appLines) ==
    FindReferencesOutcome(config, disk, appLines, NoFailure).references

\* ------------------------------------------------------------------------
\* Matching and classification
\* ------------------------------------------------------------------------
matchesAssetPath(asset, refPath) ==
    \/ asset.Path = refPath \/ asset.RelativePath = refPath \/ asset.Name = refPath
    \/ (Len(refPath) > 0 /\ HasSuffix(asset.Path, refPath))
    \/ (Len(refPath) > 0 /\ HasSuffix(asset.RelativePath, refPath))

NoKey == <<"<none>">>

MatchingKeys(asset, refs) == {k \in DOMAIN refs : matchesAssetPath(asset, k)}

\* The keys the range loop over the map can reach first for each asset: Go
\* leaves the iteration order of a map unspecified, and the loop breaks at the
\* first key that matches.
FirstMatches(as, refs) ==
    {pick \in [1..Len(as) -> DOMAIN refs \cup {NoKey}] :
        \A i \in 1..Len(as) :
            IF MatchingKeys(as[i], refs) = {} THEN pick[i] = NoKey
            ELSE pick[i] \in MatchingKeys(as[i], refs)}

\* variant: the cached count is not refreshed when references are attached
MatchReferencesToAssets_StaleCount(as, refs, pick) ==
    [i \in 1..Len(as) |->
        IF pick[i] = NoKey THEN as[i]
        ELSE [as[i] EXCEPT !.References = @ \o refs[pick[i]]]]

MatchReferencesToAssets(as, refs, pick) ==
    [i \in 1..Len(as) |->
        IF pick[i] = NoKey THEN as[i]
        ELSE [as[i] EXCEPT !.References = @ \o refs[pick[i]],
                           !.RefCount = Len(as[i].References \o refs[pick[i]])]]

\* the loop of ClassifyAsset over asset.References
RECURSIVE ClassifyLoop(_, _)
ClassifyLoop(refs, st) ==
    IF refs = <<>> THEN st
    ELSE ClassifyLoop(Tail(refs),
            [hasDynamicRef |-> st.hasDynamicRef \/ Head(refs).IsDynamic,
             allInComments |-> st.allInComments /\ Head(refs).IsComment,
             hasActiveRef  |-> st.hasActiveRef \/ ~Head(refs).IsComment])

\* variant: the comment test is evaluated before the dynamic test
ClassifyAsset_CommentFirst(asset) ==
    IF Len(asset.References) = 0 THEN "Unused"
    ELSE LET st == ClassifyLoop(asset.References,
                       [hasDynamicRef |-> FALSE, allInComments |-> TRUE,
                        hasActiveRef |-> FALSE])
         IN  IF st.allInComments THEN "PotentiallyUnused"
             ELSE IF st.hasDynamicRef THEN "NeedsManualReview"
             ELSE IF st.hasActiveRef THEN "Used"
             ELSE "Unused"

\* variant: references in comments do not count as references
ClassifyAsset_CommentsUnused(asset) ==
    IF Len(asset.References) = 0 THEN "Unused"
    ELSE LET st == ClassifyLoop(asset.References,
                       [hasDynamicRef |-> FALSE, allInComments |-> TRUE,
                        hasActiveRef |-> FALSE])
         IN  IF st.hasDynamicRef THEN "NeedsManualReview"
             ELSE IF st.hasActiveRef THEN "Used"
             ELSE "Unused"

\* variant: one reference in a comment is enough for PotentiallyUnused
ClassifyAsset_AnyComment(asset) ==
    IF Len(asset.References) = 0 THEN "Unused"
    ELSE LET st == ClassifyLoop(asset.References,
                       [hasDynamicRef |-> FALSE, allInComments |-> TRUE,
                        hasActiveRef |-> FALSE])
             anyComment == \E j \in 1..Len(asset.References) : asset.References[j].IsComment
         IN  IF st.hasDynamicRef THEN "NeedsManualReview"
             ELSE IF anyComment THEN "PotentiallyUnused"
             ELSE IF st.hasActiveRef THEN "Used"
             ELSE "Unused"

ClassifyAsset(asset) ==
    IF Len(asset.References) = 0 THEN "Unused"
    ELSE LET st == ClassifyLoop(asset.References,
                       [hasDynamicRef |-> FALSE, allInComments |-> TRUE,
                        hasActiveRef |-> FALSE])
         IN  IF st.hasDynamicRef THEN "NeedsManualReview"
             ELSE IF st.allInComments THEN "PotentiallyUnused"
             ELSE IF st.hasActiveRef THEN "Used"
             ELSE "Unused"

ClassifyAssets(as) == [i \in 1..Len(as) |-> [as[i] EXCEPT !.Status = ClassifyAsset(as[i])]]

\* ------------------------------------------------------------------------
\* Result aggregation
\* ------------------------------------------------------------------------
\* variant: the size of every asset is added to the unused size
RECURSIVE ComputeStatistics_SizeOfAll(_, _)
ComputeStatistics_SizeOfAll(as, stats) ==
    IF as = <<>> THEN stats
    ELSE LET a == Head(as)
             s1 == [stats EXCEPT !.TotalSize = @ + a.Size, !.UnusedSize = @ + a.Size,
                                 !.ReferencesFound = @ + Len(a.References)]
             s2 == CASE a.Status = "Unused" -> [s1 EXCEPT !.UnusedCount = @ + 1]
                     [] a.Status = "PotentiallyUnused" ->
                          [s1 EXCEPT !.PotentiallyUnusedCount = @ + 1]
                     [] a.Status = "NeedsManualReview" ->
                          [s1 EXCEPT !.NeedsReviewCount = @ + 1]
                     [] OTHER -> s1
         IN  ComputeStatistics_SizeOfAll(Tail(as), s2)

RECURSIVE ComputeStatistics(_, _)
ComputeStatistics(as, stats) ==
    IF as = <<>> THEN stats
    ELSE LET a == Head(as)
             s1 == [stats EXCEPT !.TotalSize = @ + a.Size,
                                 !.ReferencesFound = @ + Len(a.References)]
             s2 == CASE a.Status = "Unused" ->
                          [s1 EXCEPT !.UnusedCount = @ + 1, !.UnusedSize = @ + a.Size]
                     [] a.Status = "PotentiallyUnused" ->
                          [s1 EXCEPT !.PotentiallyUnusedCount = @ + 1]
                     [] a.Status = "NeedsManualReview" ->
                          [s1 EXCEPT !.NeedsReviewCount = @ + 1]
                     [] OTHER -> s1
         IN  ComputeStatistics(Tail(as), s2)

FilterByStatus(as, status) == SelectSeq(as, LAMBDA a : a.Status = status)

\* variant: the review list is filled from the potentially-unused status
MakeResult_ReviewFromPotential(as) ==
    [Assets |-> as,
     Stats |-> ComputeStatistics(as,
                 [TotalAssets |-> Len(as), TotalSize |-> 0, UnusedCount |-> 0,
                  UnusedSize |-> 0, PotentiallyUnusedCount |-> 0,
                  NeedsReviewCount |-> 0, ReferencesFound |-> 0]),
     UsedAssets |-> FilterByStatus(as, "Used"),
     UnusedAssets |-> FilterByStatus(as, "Unused"),
     PotentiallyUnusedAssets |-> FilterByStatus(as, "PotentiallyUnused"),
     NeedsReviewAssets |-> FilterByStatus(as, "PotentiallyUnused")]

\* the ScanResult of runScan after ComputeStatistics and PopulateFilteredLists
MakeResult(as) ==
    [Assets |-> as,
     Stats |-> ComputeStatistics(as,
                 [TotalAssets |-> Len(as), TotalSize |-> 0, UnusedCount |-> 0,
                  UnusedSize |-> 0, PotentiallyUnusedCount |-> 0,
                  NeedsReviewCount |-> 0, ReferencesFound |-> 0]),
     UsedAssets |-> FilterByStatus(as, "Used"),
     UnusedAssets |-> FilterByStatus(as, "Unused"),
     PotentiallyUnusedAssets |-> FilterByStatus(as, "PotentiallyUnused"),
     NeedsReviewAssets |-> FilterByStatus(as, "NeedsManualReview")]

NoResult == MakeResult(<<>>)

\* ------------------------------------------------------------------------
\* The delete command and the review UI's POST /api/delete
\* ------------------------------------------------------------------------
\* what the user may type at a prompt ("" is a bare Enter); "ERR" is a failed
\* read of stdin
Answers == {"y", "YES", "n", "", "q", "ERR"}

\* strings.TrimSpace(strings.ToLower(response))
ToLowerTrim(response) == IF response = "YES" THEN "yes" ELSE response

\* the path lists a user may pass as arguments or in a request body
PathChoices ==
    { <<>>,
      << P_AssetsLogo, Join2(Root, P_ImgLogo) >>,
      << P_LegacyPng, T_Logo >> }

FlagChoices == [dryRun : BOOLEAN, interactive : BOOLEAN, force : BOOLEAN]

filterAssetsByPaths(as, paths) ==
    SelectSeq(as, LAMBDA a : \E i \in 1..Len(paths) :
                                a.Path = paths[i] \/ a.RelativePath = paths[i])

\* variant: explicit paths are looked up among all assets of the scan result
selectFilesToDelete_AllAssets(res, args) ==
    IF Len(args) > 0 THEN filterAssetsByPaths(res.Assets, args)
    ELSE res.UnusedAssets

selectFilesToDelete(res, args) ==
    IF Len(args) > 0 THEN filterAssetsByPaths(res.UnusedAssets, args)
    ELSE res.UnusedAssets

\* TRUE iff the read succeeded and the answer is y or yes
promptConfirmation(answer) ==
    answer # "ERR" /\ ToLowerTrim(answer) \in {"y", "yes"}

confirmDeletion(interactive, answer) ==
    IF ~interactive THEN promptConfirmation(answer) ELSE TRUE

\* variant: the default answer of the per-file prompt is yes
promptFileAction_DefaultYes(answer) ==
    IF answer = "ERR" THEN "skip"
    ELSE CASE ToLowerTrim(answer) \in {"q", "quit"} -> "quit"
           [] ToLowerTrim(answer) \in {"n", "no"}   -> "skip"
           [] OTHER -> "delete"

promptFileAction(answer) ==
    IF answer = "ERR" THEN "skip"
    ELSE CASE ToLowerTrim(answer) \in {"q", "quit"} -> "quit"
           [] ToLowerTrim(answer) \in {"y", "yes"}  -> "delete"
           [] OTHER -> "skip"

\* os.Remove
Remove(disk, path) == disk \ {path}

RECURSIVE performDeletion(_, _)
performDeletion(todo, disk) ==
    IF todo = <<>> THEN disk
    ELSE performDeletion(Tail(todo), Remove(disk, Head(todo).Path))

\* variant: --force is tested before --dry-run
runDelete_ForceFirst(res, args, flags, answer, disk) ==
    LET filesToDelete == selectFilesToDelete(res, args)
    IN  IF Len(filesToDelete) = 0 THEN [disk |-> disk, loop |-> FALSE]
        ELSE IF flags.force /\ ~flags.interactive
             THEN [disk |-> performDeletion(filesToDelete, disk), loop |-> FALSE]
        ELSE IF flags.dryRun THEN [disk |-> disk, loop |-> FALSE]
        ELSE IF ~flags.force /\ ~confirmDeletion(flags.interactive, answer)
             THEN [disk |-> disk, loop |-> FALSE]
        ELSE IF flags.interactive THEN [disk |-> disk, loop |-> TRUE]
        ELSE [disk |-> performDeletion(filesToDelete, disk), loop |-> FALSE]

\* runDelete up to the first prompt of the interactive loop: the disk it
\* leaves and whether the per-file loop of deleteInteractive follows
runDelete(res, args, flags, answer, disk) ==
    LET filesToDelete == selectFilesToDelete(res, args)
    IN  IF Len(filesToDelete) = 0 THEN [disk |-> disk, loop |-> FALSE]
        ELSE IF flags.dryRun THEN [disk |-> disk, loop |-> FALSE]
        ELSE IF ~flags.force /\ ~confirmDeletion(flags.interactive, answer)
             THEN [disk |-> disk, loop |-> FALSE]
        ELSE IF flags.interactive THEN [disk |-> disk, loop |-> TRUE]
        ELSE [disk |-> performDeletion(filesToDelete, disk), loop |-> FALSE]

\* one iteration of promptAndDeleteFiles
promptAndDeleteFile(asset, answer, disk) ==
    LET action == promptFileAction(answer)
    IN  [disk |-> IF action = "delete" THEN Remove(disk, asset.Path) ELSE disk,
         quit |-> action = "quit"]

RECURSIVE handleDeletePaths(_, _, _)
handleDeletePaths(res, paths, disk) ==
    IF paths = <<>> THEN disk
    ELSE LET found == SelectSeq(res.UnusedAssets,
                        LAMBDA a : a.Path = Head(paths) \/ a.RelativePath = Head(paths))
         IN  handleDeletePaths(res, Tail(paths),
                               IF found = <<>> THEN disk ELSE Remove(disk, found[1].Path))

handleDelete(res, method, paths, disk) ==
    IF method # "POST" THEN disk ELSE handleDeletePaths(res, paths, disk)

\* an affirmative answer, as the documentation of the prompts defines it
Affirmative(answer) == answer \in {"y", "Y", "yes", "YES"}

NoOp ==
    [kind |-> "none", flags |-> [dryRun |-> FALSE, interactive |-> FALSE, force |-> FALSE],
     args |-> <<>>, before |-> {}, todo |-> <<>>, next |-> 0, affirmed |-> {}]

PathsOf(as) == {as[i].Path : i \in 1..Len(as)}

\* ------------------------------------------------------------------------
\* The review command: port selection and the server registry
\* ------------------------------------------------------------------------
DefaultPort == 3000
MaxPort == 3009

\* the port of the usage example "review --port 8080"
CustomPort == 8080

PortRange == DefaultPort..MaxPort

\* the PIDs of the review processes
PIDs == {1, 2}

\* net.Listen on localhost:port succeeds
IsPortAvailable(port, taken) == port \notin taken

FindAvailablePort(preferredPort, taken) ==
    LET preferred == IF preferredPort < DefaultPort \/ preferredPort > MaxPort
                     THEN DefaultPort ELSE preferredPort
        rest == {q \in PortRange : q # preferred /\ IsPortAvailable(q, taken)}
    IN  IF IsPortAvailable(preferred, taken) THEN [port |-> preferred, err |-> FALSE]
        ELSE IF rest # {}
             THEN [port |-> CHOOSE q \in rest : \A r \in rest : q <= r, err |-> FALSE]
        ELSE [port |-> 0, err |-> TRUE]

\* utils.ServerInfo; the registry is modelled by the set of its entries
ServerInfo(pid, port) == [PID |-> pid, Port |-> port]

\* RegisterServer, after loadRegistry: the registry it saves
RegisterServer(loaded, info) == {e \in loaded : e.PID # info.PID} \cup {info}

\* UnregisterServer, after loadRegistry: the entry was found, and the registry
\* it saves in that case
UnregisterServer(loaded, pid) ==
    [found |-> \E e \in loaded : e.PID = pid, servers |-> {e \in loaded : e.PID # pid}]

UnregisterServerByPort(loaded, port) ==
    [found |-> \E e \in loaded : e.Port = port, servers |-> {e \in loaded : e.Port # port}]

\* a review process: its position in runReview, the value of --port, the port
\* FindAvailablePort returned, the registry it loaded, the ports that were
\* free when it probed, and whether its unregister call has returned
Proc(phase, port) ==
    [phase |-> phase, port |-> port, actualPort |-> 0, loaded |-> {},
     freeAtProbe |-> {}, unregistered |-> FALSE]

\* isProcessAlive
isProcessAlive(pid, ps) == pid \in DOMAIN ps /\ ps[pid].phase \notin {"idle", "failed", "ended"}

\* GetActiveServers, on the registry as loaded
GetActiveServers(loaded, ps) == {e \in loaded : isProcessAlive(e.PID, ps)}

IdleAdmin == [phase |-> "idle", op |-> "none", port |-> 0, loaded |-> {}]

\* the values of --port and the ports other programs may hold
RequestedPorts == {DefaultPort, CustomPort}

ExternalChoices == {{}, {DefaultPort}, PortRange \ {MaxPort}, PortRange}

\* no review command is running
ReviewIdle ==
    /\ bound = {}
    /\ external = {}
    /\ registry = {}
    /\ procs = [p \in PIDs |-> Proc("idle", DefaultPort)]
    /\ admin = IdleAdmin

\* no function is under examination
NoRet == [done |-> FALSE]

CallIdle ==
    /\ call = [fn |-> "none"]
    /\ ret = NoRet

\* ------------------------------------------------------------------------
\* Behaviours
\* ------------------------------------------------------------------------
Init ==
    /\ pc = "start"
    /\ scanNo = 1
    /\ content \in Contents
    /\ userCfg \in UserConfigs
    /\ excludeFlag \in ExcludeFlags
    /\ files = AllFiles
    /\ cfg = DefaultConfig
    /\ assets = <<>>
    /\ references = <<>>
    /\ result = NoResult
    /\ prevStatus = <<>>
    /\ lastOp = NoOp
    /\ markers \in ScanMarkers
    /\ projectType = "Unknown"
    /\ provider = GenericPatternProvider
    /\ ReviewIdle
    /\ CallIdle

\* runScan: LoadConfig and the flag overrides
LoadConfigStep ==
    /\ pc = "start"
    /\ IF LoadConfigFails(userCfg)
       THEN pc' = "failed" /\ cfg' = cfg
       ELSE pc' = "configured" /\ cfg' = EffectiveConfig(userCfg, excludeFlag)
    /\ UNCHANGED <<scanNo, content, userCfg, excludeFlag, files, assets, references,
                   result, prevStatus, lastOp,
                   markers, projectType, provider, reviewVars, callVars>>

\* runScan: DetectProjectType and the asset paths of the detected type
DetectStep ==
    /\ pc = "configured"
    /\ projectType' = DetectProjectType(markers)
    /\ cfg' = AdjustForProjectType(cfg, DetectProjectType(markers))
    /\ pc' = "detected"
    /\ UNCHANGED <<scanNo, content, userCfg, excludeFlag, files, assets, references,
                   result, prevStatus, lastOp, markers, provider, reviewVars, callVars>>

\* runScan: assetFinder.FindAssets()
FindAssetsStep ==
    /\ pc = "detected"
    /\ assets' = FindAssets(cfg, files)
    /\ pc' = "assets"
    /\ UNCHANGED <<scanNo, content, userCfg, excludeFlag, files, cfg, references,
                   result, prevStatus, lastOp,
                   markers, projectType, provider, reviewVars, callVars>>

\* runScan: referenceFinder.FindReferences()
FindReferencesStep ==
    /\ pc = "assets"
    /\ references' = FindReferences(cfg, files, content)
    /\ provider' = NewReferenceFinder(cfg).patternProvider
    /\ pc' = "refs"
    /\ UNCHANGED <<scanNo, content, userCfg, excludeFlag, files, cfg, assets,
                   result, prevStatus, lastOp,
                   markers, projectType, reviewVars, callVars>>

\* runScan: classifier.MatchReferencesToAssets
MatchStep ==
    /\ pc = "refs"
    /\ \E pick \in FirstMatches(assets, references) :
           assets' = MatchReferencesToAssets(assets, references, pick)
    /\ pc' = "matched"
    /\ UNCHANGED <<scanNo, content, userCfg, excludeFlag, files, cfg, references,
                   result, prevStatus, lastOp,
                   markers, projectType, provider, reviewVars, callVars>>

\* runScan: classifier.ClassifyAssets
ClassifyStep ==
    /\ pc = "matched"
    /\ assets' = ClassifyAssets(assets)
    /\ pc' = "classified"
    /\ UNCHANGED <<scanNo, content, userCfg, excludeFlag, files, cfg, references,
                   result, prevStatus, lastOp,
                   markers, projectType, provider, reviewVars, callVars>>

\* runScan: ComputeStatistics, PopulateFilteredLists and the save to the cache
AggregateStep ==
    /\ pc = "classified"
    /\ result' = MakeResult(assets)
    /\ pc' = "done"
    /\ UNCHANGED <<scanNo, content, userCfg, excludeFlag, files, cfg, assets,
                   references, prevStatus, lastOp,
                   markers, projectType, provider, reviewVars, callVars>>

\* the same project is scanned again, with the same configuration and disk
Rescan ==
    /\ pc = "done"
    /\ scanNo < MaxScans
    /\ prevStatus' = [p \in PathsOf(assets) |->
                        assets[CHOOSE i \in 1..Len(assets) : assets[i].Path = p].Status]
    /\ scanNo' = scanNo + 1
    /\ pc' = "start"
    /\ assets' = <<>>
    /\ references' = <<>>
    /\ UNCHANGED <<content, userCfg, excludeFlag, files, cfg, result, lastOp,
                   markers, projectType, provider, reviewVars, callVars>>

\* the delete command, up to its end or to the first per-file prompt
RunDelete ==
    /\ pc = "done"
    /\ lastOp.next = 0
    /\ \E args \in PathChoices, flags \in FlagChoices :
         LET todo  == selectFilesToDelete(result, args)
             \* the batch prompt is the only read of stdin before the loop
             asked == Len(todo) > 0 /\ ~flags.dryRun /\ ~flags.force /\ ~flags.interactive
         IN  \E answer \in IF asked THEN Answers ELSE {"ERR"} :
             LET out == runDelete(result, args, flags, answer, files)
             IN
             /\ files' = out.disk
             /\ lastOp' = [kind |-> "delete", flags |-> flags, args |-> args,
                           before |-> files, todo |-> todo,
                           next |-> IF out.loop THEN 1 ELSE 0,
                           affirmed |-> IF asked /\ Affirmative(answer)
                                        THEN PathsOf(todo) ELSE {}]
    /\ UNCHANGED <<pc, scanNo, content, userCfg, excludeFlag, cfg, assets, references,
                   result, prevStatus,
                   markers, projectType, provider, reviewVars, callVars>>

\* the delete command: one prompt of the interactive loop and its effect
PromptFile ==
    /\ lastOp.kind = "delete"
    /\ lastOp.next > 0
    /\ \E answer \in Answers :
         LET asset == lastOp.todo[lastOp.next]
             out   == promptAndDeleteFile(asset, answer, files)
         IN  /\ files' = out.disk
             /\ lastOp' = [lastOp EXCEPT
                    !.next = IF out.quit \/ lastOp.next = Len(lastOp.todo) THEN 0 ELSE @ + 1,
                    !.affirmed = IF Affirmative(answer) THEN @ \cup {asset.Path} ELSE @]
    /\ UNCHANGED <<pc, scanNo, content, userCfg, excludeFlag, cfg, assets, references,
                   result, prevStatus,
                   markers, projectType, provider, reviewVars, callVars>>

\* the review UI serves one request to /api/delete
HandleDelete ==
    /\ pc = "done"
    /\ lastOp.next = 0
    /\ \E method \in {"GET", "POST"}, paths \in PathChoices :
         /\ files' = handleDelete(result, method, paths, files)
         /\ lastOp' = [NoOp EXCEPT !.kind = "http", !.args = paths, !.before = files]
    /\ UNCHANGED <<pc, scanNo, content, userCfg, excludeFlag, cfg, assets, references,
                   result, prevStatus,
                   markers, projectType, provider, reviewVars, callVars>>

ScanStep ==
    \/ LoadConfigStep
    \/ DetectStep
    \/ FindAssetsStep
    \/ FindReferencesStep
    \/ MatchStep
    \/ ClassifyStep
    \/ AggregateStep

\* scans of one project, under every configuration
Next == ScanStep \/ Rescan

Spec == Init /\ [][Next]_vars

\* a scan under the default configuration, followed by runs of the deleters
InitDelete ==
    /\ Init
    /\ userCfg = NoConfigFile
    /\ excludeFlag = <<>>
    /\ markers = NoMarkers

NextDelete == ScanStep \/ RunDelete \/ PromptFile \/ HandleDelete

SpecDelete == InitDelete /\ [][NextDelete]_vars

\* the state before a scan, for given sets of inputs
InitOver(contents, userCfgs, flags, roots) ==
    /\ pc = "start"
    /\ scanNo = 1
    /\ content \in contents
    /\ userCfg \in userCfgs
    /\ excludeFlag \in flags
    /\ files = AllFiles
    /\ cfg = DefaultConfig
    /\ assets = <<>>
    /\ references = <<>>
    /\ result = NoResult
    /\ prevStatus = <<>>
    /\ lastOp = NoOp
    /\ markers \in roots
    /\ projectType = "Unknown"
    /\ provider = GenericPatternProvider

\* the detector, run on every root
InitDetect == InitOver({<<>>}, {NoConfigFile}, {<<>>}, AllMarkers) /\ ReviewIdle /\ CallIdle

NextDetect == LoadConfigStep \/ DetectStep

SpecDetect == InitDetect /\ [][NextDetect]_vars

\* the contents of src/app.js of the scans that exercise the configuration
LayeredContents == {<<>>, << Line(T_Logo, FALSE, FALSE) >>}

\* one scan under every layering of configuration file, flags and root
InitLayered ==
    InitOver(LayeredContents, LayeredConfigs, LayeredFlags, ConfigMarkers) /\ ReviewIdle /\ CallIdle

SpecLayered == InitLayered /\ [][ScanStep]_vars

\* two review commands are started while other programs hold some ports
InitReview ==
    /\ InitOver({<<>>}, {NoConfigFile}, {<<>>}, {NoMarkers})
    /\ external \in ExternalChoices
    /\ bound = external
    /\ registry = {}
    /\ procs \in [PIDs -> {Proc("idle", port) : port \in RequestedPorts}]
    /\ admin = IdleAdmin
    /\ CallIdle

\* runReview: utils.FindAvailablePort(port)
Probe(p) ==
    /\ procs[p].phase = "idle"
    /\ LET found == FindAvailablePort(procs[p].port, bound)
       IN  procs' = [procs EXCEPT
                ![p].phase = IF found.err THEN "failed" ELSE "probed",
                ![p].actualPort = found.port,
                ![p].freeAtProbe = (PortRange \cup {procs[p].port}) \ bound]
    /\ UNCHANGED <<scanVars, callVars, bound, external, registry, admin>>

\* RegisterServer: loadRegistry
RegisterLoad(p) ==
    /\ procs[p].phase = "probed"
    /\ procs' = [procs EXCEPT ![p].phase = "registering", ![p].loaded = registry]
    /\ UNCHANGED <<scanVars, callVars, bound, external, registry, admin>>

\* RegisterServer: the entry of the PID is replaced and the registry saved
RegisterSave(p) ==
    /\ procs[p].phase = "registering"
    /\ registry' = RegisterServer(procs[p].loaded, ServerInfo(p, procs[p].actualPort))
    /\ procs' = [procs EXCEPT ![p].phase = "registered", ![p].loaded = {}]
    /\ UNCHANGED <<scanVars, callVars, bound, external, admin>>

\* runReview: server.Start(), that is ListenAndServe on the chosen port
Start(p) ==
    /\ procs[p].phase = "registered"
    /\ IF IsPortAvailable(procs[p].actualPort, bound)
       THEN /\ bound' = bound \cup {procs[p].actualPort}
            /\ procs' = [procs EXCEPT ![p].phase = "serving"]
       ELSE /\ bound' = bound
            /\ procs' = [procs EXCEPT ![p].phase = "serverError"]
    /\ UNCHANGED <<scanVars, callVars, external, registry, admin>>

\* runReview: SIGINT or SIGTERM from the terminal ends the wait
Interrupt(p) ==
    /\ procs[p].phase = "serving"
    /\ procs' = [procs EXCEPT ![p].phase = "stopping"]
    /\ UNCHANGED <<scanVars, callVars, bound, external, registry, admin>>

\* UnregisterServer(os.Getpid()): loadRegistry and the search of the PID; the
\* call returns an error without saving when the PID is not found
UnregisterLoad(p) ==
    /\ procs[p].phase \in {"stopping", "serverError"}
    /\ LET out == UnregisterServer(registry, p)
       IN  procs' = [procs EXCEPT
                ![p].phase = IF procs[p].phase = "stopping"
                             THEN "unregistering" ELSE "unregisteringAfterError",
                ![p].loaded = registry,
                ![p].unregistered = ~out.found]
    /\ UNCHANGED <<scanVars, callVars, bound, external, registry, admin>>

\* UnregisterServer: the registry without the PID is saved; then the server
\* is shut down and the process ends
UnregisterSave(p) ==
    /\ procs[p].phase \in {"unregistering", "unregisteringAfterError"}
    /\ LET out == UnregisterServer(procs[p].loaded, p)
       IN  registry' = IF out.found THEN out.servers ELSE registry
    /\ bound' = IF procs[p].phase = "unregistering"
                THEN bound \ {procs[p].actualPort} ELSE bound
    /\ procs' = [procs EXCEPT ![p].phase = "ended", ![p].loaded = {},
                              ![p].unregistered = TRUE]
    /\ UNCHANGED <<scanVars, callVars, external, admin>>

\* review --kill: GetServerByPort and SIGTERM to the PID of the entry
KillSignal ==
    /\ admin.phase = "idle"
    /\ \E e \in GetActiveServers(registry, procs) :
          /\ procs[e.PID].phase = "serving"
          /\ procs' = [procs EXCEPT ![e.PID].phase = "stopping"]
          /\ admin' = [phase |-> "signalled", op |-> "kill", port |-> e.Port, loaded |-> {}]
    /\ UNCHANGED <<scanVars, callVars, bound, external, registry>>

\* review --kill: UnregisterServerByPort, loadRegistry
KillLoad ==
    /\ admin.phase = "signalled"
    /\ admin' = [admin EXCEPT !.phase = "loaded", !.loaded = registry]
    /\ UNCHANGED <<scanVars, callVars, bound, external, registry, procs>>

\* review --kill: UnregisterServerByPort, the save when the port was found
KillSave ==
    /\ admin.phase = "loaded" /\ admin.op = "kill"
    /\ LET out == UnregisterServerByPort(admin.loaded, admin.port)
       IN  registry' = IF out.found THEN out.servers ELSE registry
    /\ admin' = [admin EXCEPT !.phase = "done", !.loaded = {}]
    /\ UNCHANGED <<scanVars, callVars, bound, external, procs>>

\* review --list: CleanupDeadServers, loadRegistry
CleanupLoad ==
    /\ admin.phase = "idle"
    /\ registry # {}
    /\ admin' = [phase |-> "loaded", op |-> "list", port |-> 0, loaded |-> registry]
    /\ UNCHANGED <<scanVars, callVars, bound, external, registry, procs>>

\* review --list: CleanupDeadServers keeps the entries of live PIDs and saves
CleanupSave ==
    /\ admin.phase = "loaded" /\ admin.op = "list"
    /\ registry' = GetActiveServers(admin.loaded, procs)
    /\ admin' = [admin EXCEPT !.phase = "done", !.loaded = {}]
    /\ UNCHANGED <<scanVars, callVars, bound, external, procs>>

ReviewStep(p) ==
    \/ Probe(p)
    \/ RegisterLoad(p)
    \/ RegisterSave(p)
    \/ Start(p)
    \/ Interrupt(p)
    \/ UnregisterLoad(p)
    \/ UnregisterSave(p)

AdminStep == KillSignal \/ KillLoad \/ KillSave \/ CleanupLoad \/ CleanupSave

NextReview == (\E p \in PIDs : ReviewStep(p)) \/ AdminStep

SpecReview == InitReview /\ [][NextReview]_vars

\* the scan variables of a project that is not being scanned
ScanIdle == InitOver({<<>>}, {NoConfigFile}, {<<>>}, {NoMarkers})

\* resolveAssetPath on one captured text, under one list of asset paths, on
\* the project tree with every file or without assets/logo.png
ResolveTexts ==
    { T_DotImgLogo, T_ImgLogo, T_Logo, T_Old, T_DotIcon,
      <<SEP, "assets", SEP, "logo", ".png">>,
      <<"assets", SEP, "logo", ".png">>,
      <<"assets", SEP, "img", SEP, "logo", ".png">>,
      <<"src", SEP, "logo", ".png">>,
      <<".", SEP, SEP, "nothing", ".png">>,
      <<SEP, ".", SEP, "nothing", ".png">>,
      <<".", SEP, "nothing", ".png">>,
      <<"lazy", SEP>>,
      <<"logo", ".png", SEP>>,
      <<"assets", SEP>> }

ResolveAssetPaths ==
    { DefaultAssetPaths,
      << <<"src">>, <<"assets">> >>,
      << <<"assets", SEP>>, <<"src", SEP>> >>,
      << <<"src", SEP, "img">> >>,
      << <<"public", SEP>> >> }

ResolveDisks == { AllFiles, AllFiles \ {Join2(Root, P_AssetsLogo)} }

InitResolve ==
    /\ ScanIdle
    /\ ReviewIdle
    /\ call \in { [fn |-> "resolveAssetPath", matched |-> t, assetPaths |-> a, disk |-> d] :
                      t \in ResolveTexts, a \in ResolveAssetPaths, d \in ResolveDisks }
    /\ ret = NoRet

ResolveCall ==
    /\ call.fn = "resolveAssetPath"
    /\ ~ret.done
    /\ ret' = [done |-> TRUE,
               value |-> resolveAssetPath(call.matched, [AssetPaths |-> call.assetPaths],
                                          call.disk)]
    /\ UNCHANGED <<scanVars, reviewVars, call>>

SpecResolve == InitResolve /\ [][ResolveCall]_vars

\* matchesAssetPath on one asset of the project and one key of the reference
\* map: the keys are the endings of the asset paths and two texts that belong
\* to no asset
MatchAssets == {createAssetFile(f) : f \in {g \in AllFiles : isAssetFile(g, DefaultConfig)}}

MatchKeys ==
    UNION {{SubSeq(f, i, Len(f)) : i \in 1..Len(f)} : f \in AllFiles}
    \cup {T_Old, <<"logo", ".svg">>, <<"img", SEP, "icon", ".png">>}

InitMatch ==
    /\ ScanIdle
    /\ ReviewIdle
    /\ call \in { [fn |-> "matchesAssetPath", asset |-> a, refPath |-> k] :
                      a \in MatchAssets, k \in MatchKeys }
    /\ ret = NoRet

MatchCall ==
    /\ call.fn = "matchesAssetPath"
    /\ ~ret.done
    /\ ret' = [done |-> TRUE, value |-> matchesAssetPath(call.asset, call.refPath)]
    /\ UNCHANGED <<scanVars, reviewVars, call>>

SpecMatch == InitMatch /\ [][MatchCall]_vars

\* deduplicateReferences on the references the two passes of scanFile have
\* appended for src/app.js: up to MaxRefs references, each on one of four
\* lines with one of two captured texts
MaxRefs == 2

DedupLines == {1, 2, 46, 47}

DedupTexts == {T_Logo, <<".", SEP, "logo", ".png">>}

DedupRefs ==
    { [SourceFile |-> Join2(Root, P_AppJs), LineNumber |-> n, MatchedText |-> t,
       IsComment |-> FALSE, IsDynamic |-> FALSE] : n \in DedupLines, t \in DedupTexts }

InitDedup ==
    /\ ScanIdle
    /\ ReviewIdle
    /\ call \in { [fn |-> "deduplicateReferences", refs |-> rs] :
                      rs \in UNION {[1..n -> DedupRefs] : n \in 0..MaxRefs} }
    /\ ret = NoRet

DedupCall ==
    /\ call.fn = "deduplicateReferences"
    /\ ~ret.done
    /\ ret' = [done |-> TRUE, value |-> deduplicateReferences(call.refs)]
    /\ UNCHANGED <<scanVars, reviewVars, call>>

SpecDedup == InitDedup /\ [][DedupCall]_vars

\* shouldExcludeDir on one directory the walk visits, the scan root included,
\* for a project in /p and a project in /build, under one exclusion list
PruneRoots == { Root, <<SEP, "build">> }

PruneDirs ==
    { <<>>, <<"assets">>, <<"legacy">>, <<"node_modules">>,
      <<"node_modules", SEP, "pkg">>, <<"src">>, <<"src", SEP, "img">>,
      <<"src", SEP, "main">> }

PrunePatterns ==
    { <<>>,
      DefaultExcludePaths,
      << <<"legacy">> >>,
      << <<"src", SEP, "*">> >>,
      << <<"vendor", SEP, "img">> >>,
      << <<"[", "legacy">> >>,
      << <<"node_modules", SEP>>, <<"*">> >> }

InitPrune ==
    /\ ScanIdle
    /\ ReviewIdle
    /\ call \in { [fn |-> "shouldExcludeDir", root |-> r, path |-> Join2(r, d),
                    excludePatterns |-> ps] :
                      r \in PruneRoots, d \in PruneDirs, ps \in PrunePatterns }
    /\ ret = NoRet

PruneCall ==
    /\ call.fn = "shouldExcludeDir"
    /\ ~ret.done
    /\ ret' = [done |-> TRUE,
               value |-> shouldExcludeDir(call.path, call.root, call.excludePatterns)]
    /\ UNCHANGED <<scanVars, reviewVars, call>>

SpecPrune == InitPrune /\ [][PruneCall]_vars

\* FindReferences on the project while the read of one source file fails
FailingFiles == { Join2(Root, P_AppJs), Join2(Root, P_LegacyJs) }

Failures ==
    {NoFailure} \cup {(f :> k) : f \in FailingFiles, k \in {"open", "scan"}}

InitHarvest ==
    /\ ScanIdle
    /\ ReviewIdle
    /\ call \in { [fn |-> "FindReferences", appLines |-> ls, failing |-> fl] :
                      ls \in Contents, fl \in Failures }
    /\ ret = NoRet

HarvestCall ==
    /\ call.fn = "FindReferences"
    /\ ~ret.done
    /\ ret' = [done |-> TRUE,
               value |-> FindReferencesOutcome(DefaultConfig, AllFiles, call.appLines,
                                               call.failing)]
    /\ UNCHANGED <<scanVars, reviewVars, call>>

SpecHarvest == InitHarvest /\ [][HarvestCall]_vars

\* ParseFile on src/app.js made of up to MaxAstLines lines
MaxAstLines == 2

T_DotLogo == <<".", SEP, "logo", ".png">>

AstLineChoices ==
    { AstLine(<<>>, FALSE, FALSE, FALSE),                 \* const n = 1
      AstLine(<< T_DotLogo >>, FALSE, FALSE, FALSE),      \* import logo from './logo.png'
      AstLine(<< T_DotLogo >>, FALSE, TRUE, FALSE),       \* // import logo from './logo.png'
      AstLine(<< <<>> >>, FALSE, FALSE, FALSE),           \* <img src="./logo.png" />
      AstLine(<< <<"logo">> >>, FALSE, FALSE, FALSE),     \* <img src={logo} />
      AstLine(<< T_DotLogo, T_Old >>, FALSE, FALSE, TRUE),\* import('./logo.png') + {a: 'old.png'}
      AstLine(<<>>, TRUE, FALSE, TRUE) }                  \* `url(${base}/bg.png)`

InitParse ==
    /\ ScanIdle
    /\ ReviewIdle
    /\ call \in { [fn |-> "ParseFile", lines |-> ls] :
                      ls \in UNION {[1..n -> AstLineChoices] : n \in 0..MaxAstLines} }
    /\ ret = NoRet

ParseCall ==
    /\ call.fn = "ParseFile"
    /\ ~ret.done
    /\ ret' = [done |-> TRUE, value |-> ParseFile(Join2(Root, P_AppJs), call.lines)]
    /\ UNCHANGED <<scanVars, reviewVars, call>>

SpecParse == InitParse /\ [][ParseCall]_vars

\* ------------------------------------------------------------------------
\* Properties
\* ------------------------------------------------------------------------
SeqToSet(q) == {q[i] : i \in 1..Len(q)}

HasDynamic(refs) == \E j \in 1..Len(refs) : refs[j].IsDynamic

AllInComment(refs) == \A j \in 1..Len(refs) : refs[j].IsComment

\* C1: every asset of the ScanResult that has at least one attached dynamic
\* reference has status NeedsManualReview, whatever its other references are.
C1_DynamicNeedsReview ==
    \A a \in SeqToSet(result.Assets) :
        HasDynamic(a.References) => a.Status = "NeedsManualReview"

\* a scan ended with an asset that carries a dynamic reference next to an
\* active static one
C1_Witness ==
    /\ pc = "done"
    /\ \E a \in SeqToSet(result.Assets) :
          /\ a.Status = "NeedsManualReview"
          /\ \E j, k \in 1..Len(a.References) :
                /\ a.References[j].IsDynamic
                /\ ~a.References[k].IsDynamic /\ ~a.References[k].IsComment

\* C2: an asset matched by the key of at least one harvested dynamic reference
\* ends the scan as NeedsManualReview and outside the Unused list, also when
\* other keys match the same asset.
C2_AnyDynamicKeyQuarantines ==
    pc = "done" =>
        \A a \in SeqToSet(result.Assets) :
            (\E k \in DOMAIN references :
                matchesAssetPath(a, k) /\ HasDynamic(references[k]))
            => /\ a.Status = "NeedsManualReview"
               /\ a.Path \notin PathsOf(result.UnusedAssets)

\* C3: the deleters remove only files of the Unused list of the loaded scan
\* result; an asset with another status is never removed, also when its path
\* is passed explicitly.
C3_OnlyUnusedRemoved ==
    /\ (AllFiles \ files) \subseteq PathsOf(result.UnusedAssets)
    /\ \A a \in SeqToSet(result.Assets) : a.Status # "Unused" => a.Path \in files

\* a deleter was given the path of an asset that is not Unused, removed
\* another file, and left that asset on disk
C3_Witness ==
    /\ lastOp.kind \in {"delete", "http"}
    /\ lastOp.before # files
    /\ \E a \in SeqToSet(result.Assets) :
          /\ a.Status # "Unused"
          /\ (a.Path \in SeqToSet(lastOp.args) \/ a.RelativePath \in SeqToSet(lastOp.args))
          /\ a.Path \in files

\* C4: for every asset of the ScanResult, the status is Unused if and only if
\* the asset has no attached reference.
C4_UnusedIffNoReferences ==
    \A a \in SeqToSet(result.Assets) :
        a.Status = "Unused" <=> Len(a.References) = 0

\* a scan ended with an asset without references and an asset whose references
\* are all in comments
C4_Witness ==
    /\ pc = "done"
    /\ \E a \in SeqToSet(result.Assets) : Len(a.References) = 0 /\ a.Status = "Unused"
    /\ \E a \in SeqToSet(result.Assets) :
          Len(a.References) > 0 /\ AllInComment(a.References) /\ a.Status # "Unused"

\* the decision table of the classifier, evaluated top to bottom
TableStatus(refs) ==
    IF HasDynamic(refs) THEN "NeedsManualReview"
    ELSE IF Len(refs) = 0 THEN "Unused"
    ELSE IF AllInComment(refs) THEN "PotentiallyUnused"
    ELSE "Used"

\* C5: the status ClassifyAsset assigns is the one of the four-row decision
\* table; PotentiallyUnused implies at least one reference, all in comments,
\* none dynamic.
C5_DecisionTable ==
    pc \in {"classified", "done"} =>
        \A a \in SeqToSet(assets) :
            /\ a.Status = TableStatus(a.References)
            /\ a.Status = "PotentiallyUnused" =>
                  /\ Len(a.References) > 0
                  /\ AllInComment(a.References)
                  /\ ~HasDynamic(a.References)

\* classification met an asset with a comment reference next to an active
\* one, none dynamic, and an asset without references
C5_Witness ==
    /\ pc = "classified"
    /\ \E a \in SeqToSet(assets) :
          /\ a.Status = "Used"
          /\ \E j, k \in 1..Len(a.References) :
                a.References[j].IsComment /\ ~a.References[k].IsComment
    /\ \E a \in SeqToSet(assets) : a.Status = "Unused"

\* C6: a second scan of the unchanged project under the same configuration
\* assigns every asset the status the first scan assigned.
C6_SameStatusOnRescan ==
    (scanNo > 1 /\ pc \in {"classified", "done"}) =>
        \A a \in SeqToSet(assets) :
            a.Path \in DOMAIN prevStatus /\ prevStatus[a.Path] = a.Status

\* the files the last run of the delete command removed
Removed == lastOp.before \ files

\* C7: without --force the delete command removes no file that is not covered
\* by an affirmative answer: the batch prompt, or the file's own prompt in
\* --interactive mode.
C7_NoRemovalWithoutYes ==
    (lastOp.kind = "delete" /\ ~lastOp.flags.force) => Removed \subseteq lastOp.affirmed

\* an interactive run without --force ended with a file removed and a file kept
C7_Witness ==
    /\ lastOp.kind = "delete" /\ ~lastOp.flags.force /\ lastOp.flags.interactive
    /\ lastOp.next = 0
    /\ Removed # {}
    /\ PathsOf(lastOp.todo) \cap files # {}

\* C8: delete --dry-run removes no file, whatever the other flags and the
\* explicit paths are.
C8_DryRunKeepsFiles ==
    (lastOp.kind = "delete" /\ lastOp.flags.dryRun) => files = lastOp.before

\* a dry run with --force and explicit paths had files to delete
C8_Witness ==
    /\ lastOp.kind = "delete" /\ lastOp.flags.dryRun /\ lastOp.flags.force
    /\ Len(lastOp.args) > 0
    /\ Len(lastOp.todo) > 0
    /\ PathsOf(lastOp.todo) \subseteq files

\* the prefixes of a relative path that end at a segment boundary
PathPrefixes(rel) ==
    {SubSeq(rel, 1, i - 1) : i \in {j \in 1..Len(rel) : rel[j] = SEP}} \cup {rel}

\* a path lies under a pattern when the pattern, as a glob, matches the path
\* or one of the directories above it
LiesUnder(rel, pattern) ==
    \E prefix \in PathPrefixes(rel) : Match(StripTrailingSep(pattern), prefix)

\* C9: no asset emitted by the asset discoverer has a path that lies under a
\* pattern of the effective exclusion list.
C9_ExclusionSoundness ==
    \A a \in SeqToSet(assets) :
        \A pattern \in SeqToSet(cfg.ExcludePaths) : ~LiesUnder(a.RelativePath, pattern)

AlwaysExcludedDirs == {"node_modules", "dist", "build", ".next", "target", "vendor", ".git"}

\* the path has a directory with the given name
UnderDirNamed(path, name) ==
    \E d \in AncestorDirs(path) : Base(d) = <<name>>

HarvestedRefs == UNION {SeqToSet(references[k]) : k \in DOMAIN references}

PrunedByBothWalks(name) ==
    /\ \A a \in SeqToSet(assets) : ~UnderDirNamed(a.Path, name)
    /\ \A r \in HarvestedRefs : ~UnderDirNamed(r.SourceFile, name)

DirExcludedBy(dir, pattern) ==
    \/ Match(StripTrailingSep(pattern), Rel(Root, dir))
    \/ Base(dir) = StripTrailingSep(pattern)

ExcludedDirs(patterns) ==
    {d \in AllDirs : \E pattern \in SeqToSet(patterns) : DirExcludedBy(d, pattern)}

\* C11: no reference returned by FindReferences has a source file under a
\* directory excluded by the effective exclusion list.
C11_NoReferenceFromExcludedDir ==
    \A r \in HarvestedRefs :
        AncestorDirs(r.SourceFile) \cap ExcludedDirs(cfg.ExcludePaths) = {}

\* the harvester ran with legacy/ excluded while legacy/old.js, which refers
\* to legacy/old.png, was on disk, and it found references elsewhere
C11_Witness ==
    /\ pc = "refs"
    /\ <<"legacy", SEP>> \in SeqToSet(cfg.ExcludePaths)
    /\ Join2(Root, P_LegacyJs) \in files
    /\ HarvestedRefs # {}
    /\ \A r \in HarvestedRefs : r.SourceFile # Join2(Root, P_LegacyJs)

\* the number of places of a list that hold the given asset
Occurrences(list, a) == Cardinality({i \in 1..Len(list) : list[i] = a})

\* the sub-list of the ScanResult that is named after a status
SubList(res, status) ==
    CASE status = "Used" -> res.UsedAssets
      [] status = "Unused" -> res.UnusedAssets
      [] status = "PotentiallyUnused" -> res.PotentiallyUnusedAssets
      [] status = "NeedsManualReview" -> res.NeedsReviewAssets

Statuses == {"Used", "Unused", "PotentiallyUnused", "NeedsManualReview"}

\* C12: the four status sub-lists of the ScanResult are a partition of Assets:
\* every asset is in the sub-list named by its status and in no other, and
\* the four lengths sum to the number of assets.
C12_SubListsPartition ==
    /\ \A a \in SeqToSet(result.Assets) :
          /\ a.Status \in Statuses
          /\ \A st \in Statuses :
                Occurrences(SubList(result, st), a) = IF st = a.Status THEN 1 ELSE 0
    /\ \A st \in Statuses : SeqToSet(SubList(result, st)) \subseteq SeqToSet(result.Assets)
    /\ Len(result.UsedAssets) + Len(result.UnusedAssets)
          + Len(result.PotentiallyUnusedAssets) + Len(result.NeedsReviewAssets)
       = Len(result.Assets)

\* a scan ended with assets of all four statuses
C12_Witness ==
    /\ pc = "done"
    /\ \A st \in Statuses : \E a \in SeqToSet(result.Assets) : a.Status = st

\* C13: for every asset of the ScanResult the cached reference count equals
\* the number of attached references.
C13_RefCountIsLength ==
    \A a \in SeqToSet(result.Assets) : a.RefCount = Len(a.References)

\* a scan ended with an asset that has two references attached and an asset
\* that has none
C13_Witness ==
    /\ pc = "done"
    /\ \E a \in SeqToSet(result.Assets) : Len(a.References) >= 2
    /\ \E a \in SeqToSet(result.Assets) : Len(a.References) = 0

RECURSIVE SumSizes(_)
SumSizes(S) ==
    IF S = {} THEN 0
    ELSE LET a == CHOOSE x \in S : TRUE IN a.Size + SumSizes(S \ {a})

WithStatus(res, status) == {a \in SeqToSet(res.Assets) : a.Status = status}

\* C14: the statistics agree with the statuses: unused_size is the sum of the
\* sizes of the Unused assets, every per-status count is the number of assets
\* with that status, and the Used count derived by the formatter is the
\* number of Used assets.
C14_StatisticsConsistent ==
    /\ result.Stats.UnusedSize = SumSizes(WithStatus(result, "Unused"))
    /\ result.Stats.UnusedCount = Cardinality(WithStatus(result, "Unused"))
    /\ result.Stats.PotentiallyUnusedCount
          = Cardinality(WithStatus(result, "PotentiallyUnused"))
    /\ result.Stats.NeedsReviewCount
          = Cardinality(WithStatus(result, "NeedsManualReview"))
    /\ result.Stats.TotalAssets - result.Stats.UnusedCount
          - result.Stats.PotentiallyUnusedCount - result.Stats.NeedsReviewCount
       = Cardinality(WithStatus(result, "Used"))

\* a scan ended with two Unused assets next to assets of other statuses
C14_Witness ==
    /\ pc = "done"
    /\ Cardinality(WithStatus(result, "Unused")) >= 2
    /\ WithStatus(result, "Used") # {}
    /\ WithStatus(result, "NeedsManualReview") # {}

\* the reference text resolves by the basename search only: neither the
\* exact path nor a configured asset path joined with it exists
ResolvesOnlyByBasename(text) ==
    /\ tryExactMatch(cleanPath(text), files) = <<>>
    /\ tryAssetPathMatch(cleanPath(text), cfg, files) = <<>>
    /\ tryBasenameMatch(cleanPath(text), cfg, files) # <<>>

\* the assets of the scan whose file name is the basename of the text
Homonyms(text) == {a \in SeqToSet(result.Assets) : a.Name = Base(cleanPath(text))}

\* C15: when a reference resolves only by basename and two assets share that
\* basename, both assets record the reference.
C15_HomonymsBothRecord ==
    pc = "done" =>
        \A r \in HarvestedRefs :
            (ResolvesOnlyByBasename(r.MatchedText) /\ Cardinality(Homonyms(r.MatchedText)) >= 2)
            => \A a \in Homonyms(r.MatchedText) : r \in SeqToSet(a.References)

\* the markers of the ladder of the detector, in its order
LadderOrder ==
    <<"package.json", "pubspec.yaml", "App.xcodeproj", "build.gradle",
      "build.gradle.kts", "app/build.gradle", "go.mod", "Cargo.toml">>

MarkerPresent(name) ==
    IF name = "package.json" THEN markers.packageJSON.state # "absent"
    ELSE name \in markers.present

\* the frameworks a package.json is searched for, in order, and their tags
FrameworkOrder == <<"react-native", "react", "vue", "@angular/core", "svelte">>

FrameworkTag(dep) ==
    CASE dep = "react-native" -> "ReactNative"
      [] dep = "react" -> "WebReact"
      [] dep = "vue" -> "WebVue"
      [] dep = "@angular/core" -> "WebAngular"
      [] dep = "svelte" -> "WebSvelte"

PackageTag ==
    LET listed == markers.packageJSON.Dependencies \cup markers.packageJSON.DevDependencies
        hits == {i \in 1..Len(FrameworkOrder) : FrameworkOrder[i] \in listed}
    IN  IF hits = {} THEN "Unknown"
        ELSE FrameworkTag(FrameworkOrder[CHOOSE i \in hits : \A j \in hits : i <= j])

MarkerTag(name) ==
    CASE name = "package.json" -> PackageTag
      [] name = "pubspec.yaml" -> "Flutter"
      [] name = "App.xcodeproj" -> "IOS"
      [] name \in {"build.gradle", "build.gradle.kts", "app/build.gradle"} -> "Android"
      [] name = "go.mod" -> "Go"
      [] name = "Cargo.toml" -> "Rust"

\* the tag of the first marker of the ladder that is present
LadderTag ==
    LET hits == {i \in 1..Len(LadderOrder) : MarkerPresent(LadderOrder[i])}
    IN  IF hits = {} THEN "Unknown"
        ELSE MarkerTag(LadderOrder[CHOOSE i \in hits : \A j \in hits : i <= j])

\* C16: on a root whose package.json is absent or readable, DetectProjectType
\* returns the tag of the first marker present in the order of the ladder; a
\* readable package.json decides by the union of its dependency tables, in
\* the order of the frameworks, and no later marker is consulted.
C16_FirstMarkerWins ==
    (pc = "detected" /\ markers.packageJSON.state \in {"absent", "ok"})
    => projectType = LadderTag

\* the detector met react-native in devDependencies and react in
\* dependencies, next to pubspec.yaml and go.mod
C16_Witness ==
    /\ pc = "detected"
    /\ markers.packageJSON.state = "ok"
    /\ "react" \in markers.packageJSON.Dependencies
    /\ "react-native" \in markers.packageJSON.DevDependencies
    /\ {"pubspec.yaml", "go.mod"} \subseteq markers.present
    /\ projectType = "ReactNative"

\* C17: with a package.json that is unreadable or malformed, DetectProjectType
\* returns Unknown, whatever other markers are present.
C17_BrokenPackageIsUnknown ==
    (pc = "detected" /\ markers.packageJSON.state \in {"unreadable", "malformed"})
    => projectType = "Unknown"

\* the list a layer supplies, or the empty list
UserSupplied(list) == IF userCfg.Exists /\ userCfg.Readable THEN list ELSE <<>>

\* the effective lists of the layering: defaults, then the defaults of the
\* detected project type when detection is enabled, then the configuration
\* file, then the flags
LayeredAssetPaths ==
    IF Len(UserSupplied(userCfg.AssetPaths)) > 0 THEN userCfg.AssetPaths
    ELSE IF cfg.AutoDetectProjectType /\ projectType # "Unknown"
         THEN DefaultAssetPathsForProjectType(projectType)
    ELSE DefaultAssetPaths

LayeredExcludePaths ==
    IF Len(excludeFlag) > 0 THEN excludeFlag
    ELSE IF Len(UserSupplied(userCfg.ExcludePaths)) > 0 THEN userCfg.ExcludePaths
    ELSE DefaultExcludePaths

Scanning == pc \in {"detected", "assets", "refs", "matched", "classified", "done"}

\* C18: the effective configuration of a scan is the layering defaults <
\* project-type defaults < configuration file < flags; an asset-path list of
\* the configuration file is the effective one also when a known project
\* type is detected.
C18_LayeredConfig ==
    Scanning => /\ cfg.AssetPaths = LayeredAssetPaths
                /\ cfg.ExcludePaths = LayeredExcludePaths

\* C19: a scan whose effective exclusion list holds a pattern that does not
\* compile as a glob ends in an error and produces no ScanResult.
C19_BadGlobIsFatal ==
    (\E i \in 1..Len(cfg.ExcludePaths) : ErrBadPattern(cfg.ExcludePaths[i]))
    => (pc \notin {"classified", "done"} /\ result = NoResult)

\* C20: when no project type is set in the configuration, the harvester of
\* the scan uses the pattern provider registered for the detected type.
C20_ProviderOfDetectedType ==
    (pc \in {"refs", "matched", "classified", "done"} /\ cfg.ProjectType = "Unknown")
    => provider = GetPatternProvider(projectType)

\* ------------------------------------------------------------------------
\* Properties of the review command (SpecReview)
\* ------------------------------------------------------------------------
Probed(p) == procs[p].phase \notin {"idle"}

HasEntry(p) == \E e \in registry : e.PID = p

\* C21: FindAvailablePort returns the port given with --port whenever that
\* port was free when probed; when it was taken it returns a free port of
\* 3000-3009; it fails only when every port of the range was taken.
C21_PreferredPortHonoured ==
    \A p \in PIDs :
        Probed(p) =>
            LET free == procs[p].freeAtProbe
                failed == procs[p].phase = "failed"
            IN  /\ procs[p].port \in free
                    => ~failed /\ procs[p].actualPort = procs[p].port
                /\ (procs[p].port \notin free /\ ~failed)
                    => procs[p].actualPort \in PortRange \cap free
                /\ failed => PortRange \cap free = {}

\* C22: once the RegisterServer calls of two review processes have both
\* returned, and nothing has unregistered either, the registry file holds an
\* entry for each of them, whatever the interleaving of their loads and saves.
C22_BothRegistered ==
    (/\ \A p \in PIDs : procs[p].phase \in {"registered", "serving"}
     /\ admin.phase = "idle")
        => \A p \in PIDs : HasEntry(p)

\* C23: when at least two ports of 3000-3009 are free, two concurrent review
\* processes both come to serve, on different ports: none registers a port it
\* then fails to bind, none fails because the other bound the port between
\* its probe and its listen.
C23_BothServe ==
    Cardinality(PortRange \ external) >= 2 =>
        /\ \A p \in PIDs : procs[p].phase \notin {"failed", "serverError",
                                                   "unregisteringAfterError"}
        /\ \A p, q \in PIDs :
               (p # q /\ procs[p].phase = "serving" /\ procs[q].phase = "serving")
                   => procs[p].actualPort # procs[q].actualPort

\* C24: once a review process has ended and its unregister step has returned,
\* the registry holds no entry with its PID, also while other processes
\* register, unregister or clean up.
C24_NoOrphanedEntry ==
    \A p \in PIDs :
        (procs[p].phase = "ended" /\ procs[p].unregistered) => ~HasEntry(p)

\* ------------------------------------------------------------------------
\* Properties of resolveAssetPath (SpecResolve)
\* ------------------------------------------------------------------------
\* a text without one leading "./" or "/"
StripOneLead(t) ==
    IF Len(t) >= 2 /\ t[1] = "." /\ t[2] = SEP THEN SubSeq(t, 3, Len(t))
    ELSE IF Len(t) >= 1 /\ t[1] = SEP THEN SubSeq(t, 2, Len(t))
    ELSE t

\* a text without a leading "./" and then without a leading "/"
StripBothLeads(t) ==
    LET a == IF Len(t) >= 2 /\ t[1] = "." /\ t[2] = SEP THEN SubSeq(t, 3, Len(t)) ELSE t
    IN  IF Len(a) >= 1 /\ a[1] = SEP THEN SubSeq(a, 2, Len(a)) ELSE a

RECURSIVE Flatten(_)
Flatten(ss) == IF ss = <<>> THEN <<>> ELSE Head(ss) \o Flatten(Tail(ss))

\* the candidates of the ladder for a normalised text, in its order
LadderCandidates(norm, assetPaths, disk) ==
    LET byRoot(A) ==
            << Join3(Root, A, norm) >> \o
            (IF HasPrefix(norm, A)
             THEN << Join3(Root, A, TrimPrefix(SubSeq(norm, Len(A) + 1, Len(norm)),
                                               <<SEP>>)) >>
             ELSE <<>>)
        sameBase(A) ==
            LET under(f) == f \in disk /\ HasPrefix(f, Join2(Root, A) \o <<SEP>>)
                            /\ Base(f) = Base(norm)
            IN  SelectSeq(TreeOrder, under)
    IN  << Join2(Root, norm) >>
        \o Flatten([i \in 1..Len(assetPaths) |-> byRoot(assetPaths[i])])
        \o Flatten([i \in 1..Len(assetPaths) |->
                        IF sameBase(assetPaths[i]) = <<>> THEN <<>>
                        ELSE << sameBase(assetPaths[i])[1] >>])

FirstExisting(cands, disk, otherwise) ==
    LET there(c) == Exists(c, disk)
    IN  IF SelectSeq(cands, there) = <<>> THEN otherwise
        ELSE SelectSeq(cands, there)[1]

\* a text that names a directory which is not in the project
IsMissingDirReference(t, disk) ==
    /\ HasSuffix(StripBothLeads(t), <<SEP>>)
    /\ ~Exists(Join2(Root, StripBothLeads(t)), disk)

EndsWithSegments(path, key) ==
    LET ps == Split(path)
        ks == Split(key)
    IN  Len(ps) >= Len(ks) /\ SubSeq(ps, Len(ps) - Len(ks) + 1, Len(ps)) = ks

\* C26: a key that is not the absolute path, the relative path or the
\* basename of an asset matches the asset only when the segments of the
\* asset's path end with the segments of the key, never merely because the
\* path ends with the characters of the key.
C26_TrailingSegments ==
    (/\ call.fn = "matchesAssetPath" /\ ret.done
     /\ call.refPath \notin {call.asset.Path, call.asset.RelativePath, call.asset.Name}
     /\ ret.value)
        => EndsWithSegments(call.asset.Path, call.refPath)

\* ------------------------------------------------------------------------
\* Properties of deduplicateReferences (SpecDedup)
\* ------------------------------------------------------------------------
Triple(ref) == <<ref.SourceFile, ref.LineNumber, ref.MatchedText>>

\* C27: the references scanFile returns hold exactly one reference for each
\* distinct triple (source file, line number, captured text) the passes
\* found: two references are merged if and only if the three are equal.
C27_OnePerTriple ==
    (call.fn = "deduplicateReferences" /\ ret.done) =>
        /\ {Triple(ret.value[j]) : j \in 1..Len(ret.value)}
               = {Triple(call.refs[i]) : i \in 1..Len(call.refs)}
        /\ \A j, k \in 1..Len(ret.value) :
               j # k => Triple(ret.value[j]) # Triple(ret.value[k])

\* ------------------------------------------------------------------------
\* Properties of shouldExcludeDir (SpecPrune)
\* ------------------------------------------------------------------------
\* the relative path, or one of the directories above it, is the pattern or
\* matches it as a glob
MatchesOrLiesUnder(rel, pattern) ==
    LET pat == StripTrailingSep(pattern)
        ends == {Len(rel)} \cup {i - 1 : i \in {j \in 1..Len(rel) : rel[j] = SEP}}
    IN  \E e \in ends :
            \/ SubSeq(rel, 1, e) = pat
            \/ filepathMatch(pattern, SubSeq(rel, 1, e)).matched
            \/ filepathMatch(pat, SubSeq(rel, 1, e)).matched

\* C28: a directory is pruned only if its root-relative path matches, or lies
\* under, a pattern of the exclusion list, and the scan root itself is never
\* pruned, whatever its directory name.
C28_PrunedOnlyUnderPattern ==
    (call.fn = "shouldExcludeDir" /\ ret.done /\ ret.value) =>
        /\ call.path # call.root
        /\ \E i \in 1..Len(call.excludePatterns) :
               MatchesOrLiesUnder(Rel(call.root, call.path), call.excludePatterns[i])

\* ------------------------------------------------------------------------
\* Properties of FindReferences under read failures (SpecHarvest)
\* ------------------------------------------------------------------------
\* the source files of the references of a map
RefSources(map) ==
    UNION {{map[k][i].SourceFile : i \in 1..Len(map[k])} : k \in DOMAIN map}

C30_TextAndLine ==
    (call.fn = "ParseFile" /\ ret.done) =>
        \A i \in 1..Len(ret.value) :
            /\ ret.value[i].MatchedText # <<>>
            /\ ret.value[i].LineNumber >= 1

====
